---- MODULE Spec2Model ----
(***************************************************************************)
(* Model of pool_parsing.py: the snapshot parser (parse_pool_file,         *)
(* parse_pool_record), the comparison engine (filter_pools_by_condition,   *)
(* check_unchanged_values, compare_pool_data) and the workflow of main     *)
(* (parse_all_snapshot_files, select_files_for_comparison, the two         *)
(* comparison calls).                                                      *)
(*                                                                         *)
(* Python strings are sequences of one-character strings.  Python values   *)
(* are tagged records: PyInt(n), PyFloat(ip, fp), PyStr(s); PyEq is Python's  *)
(* ==, which compares an int and a float numerically.                      *)
(***************************************************************************)
EXTENDS Integers, Sequences, FiniteSets, TLC

VARIABLES
    py3,            \* sys.version_info[0] >= 3
    content,        \* parser: the text read from the file
    ppc,            \* parser: "start", "done" or "raised"
    pools,          \* parser: the collection returned by parse_pool_file
    data1, data2,   \* engine: the two collections
    call,           \* engine: the call made and its arguments
    result,         \* engine: the value the call returned
    entries,        \* main: what glob.glob returned, in order
    mpc,            \* main: position in main
    all_pool_data,  \* main: filename -> collection
    filenames,      \* main: list(all_pool_data.keys())
    choices,        \* main: what the two prompts received
    selected,       \* main: (file1, file2) returned by the selection
    invoked,        \* main: the comparison calls made so far, in order
    printed         \* main: the messages printed by the selection and by main

vars == <<py3, content, ppc, pools, data1, data2, call, result, entries, mpc,
          all_pool_data, filenames, choices, selected, invoked, printed>>

parserVars == <<content, ppc, pools>>
engineVars == <<data1, data2, call, result>>
mainVars == <<entries, mpc, all_pool_data, filenames, choices, selected, invoked, printed>>

-----------------------------------------------------------------------------
(* Bounds of the model *)

MaxLines == 4       \* lines in a parsed text
MaxEntries == 3     \* pool records in the two compared collections together
MaxFiles == 2       \* paths returned by glob.glob

-----------------------------------------------------------------------------
(* Python strings *)

SP == " "
NL == "\n"
SUP2 == "U+00B2"       \* U+00B2: str.isdigit() is True on Python 3, int() rejects it

DecimalChars == {"0", "1", "2", "3", "4", "5", "6", "7", "8", "9"}
Whitespace == {SP, NL}

DigitVal(c) ==
    CASE c = "0" -> 0 [] c = "1" -> 1 [] c = "2" -> 2 [] c = "3" -> 3
      [] c = "4" -> 4 [] c = "5" -> 5 [] c = "6" -> 6 [] c = "7" -> 7
      [] c = "8" -> 8 [] c = "9" -> 9

\* s[i:] starts with pat (i is 1-based)
StartsAt(s, pat, i) ==
    /\ i >= 1
    /\ i + Len(pat) - 1 <= Len(s)
    /\ \A j \in 1..Len(pat) : s[i + j - 1] = pat[j]

\* str.find: the least position of pat in s, 0 when there is none
Find(s, pat) ==
    LET hits == {i \in 1..Len(s) : StartsAt(s, pat, i)}
    IN IF hits = {} THEN 0 ELSE CHOOSE i \in hits : \A j \in hits : i <= j

\* pat in s
Contains(s, pat) == Find(s, pat) # 0

\* str.startswith
startswith(s, pat) == StartsAt(s, pat, 1)

\* str.split(sep)
RECURSIVE split(_, _)
split(s, sep) ==
    LET i == Find(s, sep)
    IN IF i = 0
       THEN <<s>>
       ELSE <<SubSeq(s, 1, i - 1)>> \o split(SubSeq(s, i + Len(sep), Len(s)), sep)

\* str.split(sep, 1)
split1(s, sep) ==
    LET i == Find(s, sep)
    IN IF i = 0
       THEN <<s>>
       ELSE <<SubSeq(s, 1, i - 1), SubSeq(s, i + Len(sep), Len(s))>>

\* str.strip()
strip(s) ==
    LET keep == {i \in 1..Len(s) : s[i] \notin Whitespace}
    IN IF keep = {}
       THEN <<>>
       ELSE LET lo == CHOOSE i \in keep : \A j \in keep : i <= j
                hi == CHOOSE i \in keep : \A j \in keep : i >= j
            IN SubSeq(s, lo, hi)

\* str.isdigit(): ASCII digits on a Python 2 byte string; on Python 3 also the
\* characters of Unicode category No with a digit value, such as U+00B2
isdigit(s) ==
    /\ Len(s) > 0
    /\ \A i \in 1..Len(s) : s[i] \in DecimalChars \/ (py3 /\ s[i] = SUP2)

\* re.match(r'^\d+\.\d+$', s): \d is a decimal digit
IsFloatText(s) ==
    \E d \in 2..(Len(s) - 1) :
        /\ s[d] = "."
        /\ \A i \in 1..Len(s) : i # d => s[i] \in DecimalChars

RECURSIVE ToNat(_)
ToNat(s) ==
    IF s = <<>> THEN 0
    ELSE 10 * ToNat(SubSeq(s, 1, Len(s) - 1)) + DigitVal(s[Len(s)])

RECURSIVE StripZeros(_)
StripZeros(s) ==
    IF s # <<>> /\ s[Len(s)] = "0" THEN StripZeros(SubSeq(s, 1, Len(s) - 1)) ELSE s

-----------------------------------------------------------------------------
(* Python values *)

PyInt(n) == [t |-> "int", n |-> n]
\* a float read from "ip.fp": integer part and fraction digits without trailing zeros
PyFloat(ip, fp) == [t |-> "float", ip |-> ip, fp |-> fp]
PyStr(s) == [t |-> "str", s |-> s]
ValueError == [t |-> "ValueError"]

\* Python's ==
PyEq(a, b) ==
    CASE a.t = "str" /\ b.t = "str" -> a.s = b.s
      [] a.t = "int" /\ b.t = "int" -> a.n = b.n
      [] a.t = "float" /\ b.t = "float" -> a.ip = b.ip /\ a.fp = b.fp
      [] a.t = "int" /\ b.t = "float" -> a.n = b.ip /\ b.fp = <<>>
      [] a.t = "float" /\ b.t = "int" -> b.n = a.ip /\ a.fp = <<>>
      [] a.t = "None" /\ b.t = "None" -> TRUE
      [] OTHER -> FALSE

\* int(s): surrounding whitespace and one sign are accepted, then every
\* character must be a decimal digit; a ValueError otherwise
int(s) ==
    LET t == strip(s)
        signed == t # <<>> /\ t[1] \in {"+", "-"}
        body == IF signed THEN Tail(t) ELSE t
    IN IF body # <<>> /\ \A i \in 1..Len(body) : body[i] \in DecimalChars
       THEN PyInt(IF signed /\ t[1] = "-" THEN 0 - ToNat(body) ELSE ToNat(body))
       ELSE ValueError

\* float(s) for s matching digits '.' digits
float(s) ==
    LET d == CHOOSE i \in 1..Len(s) : s[i] = "."
    IN PyFloat(ToNat(SubSeq(s, 1, d - 1)), StripZeros(SubSeq(s, d + 1, Len(s))))

\* lines 52-55: the coercion of a value token
Coerce(value) ==
    IF isdigit(value) THEN int(value)
    ELSE IF IsFloatText(value) THEN float(value)
    ELSE PyStr(value)

-----------------------------------------------------------------------------
(* Literals of the source *)

LTM_POOL_SP == <<"l", "t", "m", " ", "p", "o", "o", "l", " ">>
LTM_POOL == <<"l", "t", "m", " ", "p", "o", "o", "l">>
RECORD_SEP == <<NL, "}", NL>>
OPEN_BRACE == <<"{">>
NAME == <<"n", "a", "m", "e">>
MISSING == PyStr(<<"<", "m", "i", "s", "s", "i", "n", "g", ">">>)
POOL_STATUS == <<"p", "o", "o", "l", "_", "s", "t", "a", "t", "u", "s">>

-----------------------------------------------------------------------------
(* Python dicts: functions; d[k] = v on a dict *)

EmptyDict == <<>>

\* d.setdefault(k, v): the first value of a key is kept
PutIfAbsent(d, k, v) == [x \in DOMAIN d \cup {k} |-> IF x \in DOMAIN d THEN d[x] ELSE v]

Put(d, k, v) == [x \in DOMAIN d \cup {k} |-> IF x = k THEN v ELSE d[x]]

\* dict.get(k, default)
Get(d, k, default) == IF k \in DOMAIN d THEN d[k] ELSE default

-----------------------------------------------------------------------------
(* The record parser *)

\* re.search(r'ltm pool ([^ ]+)', record): group(1) of the leftmost match,
\* <<>> when there is no match
PoolMatch(record) ==
    LET n == Len(LTM_POOL_SP)
        hits == {i \in 1..Len(record) :
                    /\ StartsAt(record, LTM_POOL_SP, i)
                    /\ i + n <= Len(record)
                    /\ record[i + n] # SP}
    IN IF hits = {}
       THEN <<>>
       ELSE LET i == CHOOSE h \in hits : \A j \in hits : h <= j
                from == i + n
                stops == {j \in from..Len(record) : record[j] = SP}
                to == IF stops = {}
                      THEN Len(record)
                      ELSE (CHOOSE s \in stops : \A j \in stops : s <= j) - 1
            IN SubSeq(record, from, to)

\* line 44: the line is an attribute line
IsAttributeLine(line) ==
    /\ line # <<>>
    /\ ~startswith(line, LTM_POOL)
    /\ line # OPEN_BRACE

\* lines 42-57: the loop over the lines from line i on; a dict, or a ValueError
\* raised by the coercion
RECURSIVE ParseLines(_, _, _)
ParseLines(lines, i, pool_data) ==
    IF i > Len(lines) THEN [kind |-> "dict", d |-> pool_data]
    ELSE LET line == strip(lines[i])
             parts == split1(line, <<SP>>)
         IN IF IsAttributeLine(line) /\ Len(parts) = 2
            THEN LET value == Coerce(parts[2])
                 IN IF value = ValueError
                    THEN [kind |-> "raise"]
                    ELSE ParseLines(lines, i + 1, Put(pool_data, parts[1], value))
            ELSE ParseLines(lines, i + 1, pool_data)

\* parse_pool_record: None, a dict, or a raised ValueError
parse_pool_record(record) ==
    LET pool_name == PoolMatch(record)
    IN IF pool_name = <<>>
       THEN [kind |-> "None"]
       ELSE ParseLines(split(record, <<NL>>), 1, Put(EmptyDict, NAME, PyStr(pool_name)))

\* lines 20-25: the loop over the records from record i on
RECURSIVE ParseRecords(_, _, _)
ParseRecords(records, i, acc) ==
    IF i > Len(records) THEN [kind |-> "ok", pools |-> acc]
    ELSE IF Contains(records[i], LTM_POOL_SP)
         THEN LET r == parse_pool_record(records[i])
              IN CASE r.kind = "raise" -> [kind |-> "raise"]
                   [] r.kind = "None" -> ParseRecords(records, i + 1, acc)
                   [] OTHER -> ParseRecords(records, i + 1, Put(acc, r.d[NAME], r.d))
         ELSE ParseRecords(records, i + 1, acc)

\* parse_pool_file on the text read from the file
parse_pool_file(text) == ParseRecords(split(text, RECORD_SEP), 1, EmptyDict)

-----------------------------------------------------------------------------
(* Texts the parser is run on: up to MaxLines lines, each ended by a newline *)

HeaderLine == LTM_POOL_SP \o <<"p", " ", "{">>
BareHeader == LTM_POOL_SP
CloseLine == <<"}">>
IntLine == <<"k", " ", "1">>
FloatLine == <<" ", "k", " ", "1", ".", "0", " ">>
NameLine == <<"n", "a", "m", "e", " ", "q">>
SupLine == <<"k", " ", SUP2>>
NoSpaceLine == <<"k">>

Lines == {HeaderLine, BareHeader, CloseLine, IntLine, FloatLine, NameLine,
          SupLine, NoSpaceLine}

RECURSIVE JoinLines(_)
JoinLines(ls) ==
    IF ls = <<>> THEN <<>> ELSE Head(ls) \o <<NL>> \o JoinLines(Tail(ls))

Texts == {JoinLines(ls) : ls \in UNION {[1..n -> Lines] : n \in 0..MaxLines}}

IdleParser == content = <<>> /\ ppc = "idle" /\ pools = EmptyDict
IdleEngine == data1 = EmptyDict /\ data2 = EmptyDict /\ call = [op |-> "none"] /\ result = EmptyDict
IdleMain ==
    /\ entries = <<>> /\ mpc = "idle" /\ all_pool_data = EmptyDict /\ filenames = <<>>
    /\ choices = <<>> /\ selected = <<>> /\ invoked = <<>> /\ printed = <<>>

InitParse ==
    /\ py3 \in BOOLEAN
    /\ content \in Texts
    /\ ppc = "start"
    /\ pools = EmptyDict
    /\ IdleEngine
    /\ IdleMain

\* parse_pool_file returns
ParseFile ==
    /\ ppc = "start"
    /\ LET r == parse_pool_file(content)
       IN r.kind = "ok" /\ pools' = r.pools
    /\ ppc' = "done"
    /\ UNCHANGED <<py3, content, engineVars, mainVars>>

\* parse_pool_file raises the ValueError of int()
ParseFileRaises ==
    /\ ppc = "start"
    /\ parse_pool_file(content).kind = "raise"
    /\ ppc' = "raised"
    /\ UNCHANGED <<py3, content, pools, engineVars, mainVars>>

NextParse == ParseFile \/ ParseFileRaises

SpecParse == InitParse /\ [][NextParse]_vars

-----------------------------------------------------------------------------
(* The comparison engine *)

PyNone == [t |-> "None"]
PyList(keys) == [t |-> "list", keys |-> keys]
PyDict(d) == [t |-> "dict", d |-> d]

MISSING_IN == <<"M", "i", "s", "s", "i", "n", "g", " ", "i", "n", " ">>

\* 'Missing in {}'.format(filename)
MissingIn(filename) == PyStr(MISSING_IN \o filename)

\* line 91: pool_info.get(filter_key) == filter_value
FilterMatches(pool_info, filter_key, filter_value) ==
    PyEq(Get(pool_info, filter_key.s, PyNone), filter_value)

\* the filter looks at the presence of the key only
filter_by_key_only(pool_data, filter_key, filter_value) ==
    LET kept == {pool_name \in DOMAIN pool_data : filter_key.s \in DOMAIN pool_data[pool_name]}
    IN [pool_name \in kept |-> pool_data[pool_name]]

filter_pools_by_condition(pool_data, filter_key, filter_value) ==
    LET kept == {pool_name \in DOMAIN pool_data :
                    FilterMatches(pool_data[pool_name], filter_key, filter_value)}
    IN [pool_name \in kept |-> pool_data[pool_name]]

\* lines 134-139 and 186-191: the keys compared for one pool
KeysToCompare(pool1_data, pool2_data, keys_to_check) ==
    IF keys_to_check = PyNone
    THEN DOMAIN pool1_data \cup DOMAIN pool2_data
    ELSE keys_to_check.keys

\* a key absent from both records counts as a difference
ValuesDifferOrAbsent(value1, value2) == ~PyEq(value1, value2) \/ value1 = MISSING

\* line 197: value1 != value2
ValuesDiffer(value1, value2) == ~PyEq(value1, value2)

\* line 148: value1 == value2 and value1 != '<missing>'
ValuesUnchanged(value1, value2) == PyEq(value1, value2) /\ ~PyEq(value1, MISSING)

\* lines 112-122: the collections after the optional filtering
Filtered(data, filter_key, filter_value) ==
    IF filter_key # PyNone /\ filter_value # PyNone
    THEN filter_pools_by_condition(data, filter_key, filter_value)
    ELSE data

\* lines 133-149: unchanged_attrs of one common pool
UnchangedAttrs(pool1_data, pool2_data, keys_to_check) ==
    LET same == {key \in KeysToCompare(pool1_data, pool2_data, keys_to_check) :
                    ValuesUnchanged(Get(pool1_data, key, MISSING),
                                    Get(pool2_data, key, MISSING))}
    IN [key \in same |-> Get(pool1_data, key, MISSING)]

check_unchanged_values(d1, d2, filename1, filename2, filter_key, filter_value, keys_to_check) ==
    LET data1_filtered == Filtered(d1, filter_key, filter_value)
        data2_filtered == Filtered(d2, filter_key, filter_value)
        common_pools == DOMAIN data1_filtered \cap DOMAIN data2_filtered
        attrs(pool_name) == UnchangedAttrs(data1_filtered[pool_name],
                                           data2_filtered[pool_name], keys_to_check)
        kept == {pool_name \in common_pools : DOMAIN attrs(pool_name) # {}}
    IN [pool_name \in kept |-> attrs(pool_name)]

\* the marker names the file the pool was found in
AbsenceMarkerSwapped(pool_name, d1, d2, filename1, filename2) ==
    IF pool_name \notin DOMAIN d1 THEN MissingIn(filename2) ELSE MissingIn(filename1)

\* lines 176-179: the status marker of a pool that is not in both collections
AbsenceMarker(pool_name, d1, d2, filename1, filename2) ==
    IF pool_name \notin DOMAIN d1 THEN MissingIn(filename1) ELSE MissingIn(filename2)

\* lines 198-201: {filename1: value1, filename2: value2}
ValuePair(filename1, value1, filename2, value2) ==
    PyDict(Put(Put(EmptyDict, filename1, value1), filename2, value2))

\* lines 173-201: pool_diffs of one pool
PoolDiffs(pool_name, d1, d2, filename1, filename2, keys_to_check) ==
    IF pool_name \notin DOMAIN d1 \/ pool_name \notin DOMAIN d2
    THEN Put(EmptyDict, POOL_STATUS, AbsenceMarker(pool_name, d1, d2, filename1, filename2))
    ELSE LET pool1_data == d1[pool_name]
             pool2_data == d2[pool_name]
             differing == {key \in KeysToCompare(pool1_data, pool2_data, keys_to_check) :
                              ValuesDiffer(Get(pool1_data, key, MISSING),
                                           Get(pool2_data, key, MISSING))}
         IN [key \in differing |->
                ValuePair(filename1, Get(pool1_data, key, MISSING),
                          filename2, Get(pool2_data, key, MISSING))]

compare_pool_data(d1, d2, filename1, filename2, keys_to_check) ==
    LET all_pools == DOMAIN d1 \cup DOMAIN d2
        diffs(pool_name) == PoolDiffs(pool_name, d1, d2, filename1, filename2, keys_to_check)
        kept == {pool_name \in all_pools : DOMAIN diffs(pool_name) # {}}
    IN [pool_name \in kept |-> diffs(pool_name)]

\* lines 256-268: what display_differences prints for each pool and key
display_differences(differences, filename1, filename2) ==
    [pool_name \in DOMAIN differences |->
        [key \in DOMAIN differences[pool_name] |->
            LET value_info == differences[pool_name][key]
            IN IF key = POOL_STATUS
               THEN [shown |-> "message", text |-> value_info]
               ELSE [shown |-> "pair",
                     from |-> Get(value_info.d, filename1, MISSING),
                     to |-> Get(value_info.d, filename2, MISSING)]]]

-----------------------------------------------------------------------------
(* Collections the engine is run on, shaped as the parser returns them: each  *)
(* record carries its pool name under 'name'                                 *)

K == <<"k">>
Z == <<"z">>            \* a key no record has
LabelA == <<"a">>
LabelB == <<"b">>

PoolNames == {PyStr(<<"p">>), PyStr(<<"q">>)}
KValues == {PyInt(1), PyFloat(1, <<>>), PyStr(<<"x">>), MISSING}
StatusValues == {PyStr(<<"x">>)}

RecordsOf(pool_name) ==
    {Put(EmptyDict, NAME, pool_name)}
    \cup {Put(Put(EmptyDict, NAME, pool_name), K, v) : v \in KValues}
    \cup {Put(Put(EmptyDict, NAME, pool_name), POOL_STATUS, v) : v \in StatusValues}
    \cup {Put(Put(Put(EmptyDict, NAME, pool_name), K, v), POOL_STATUS, w) :
             v \in KValues, w \in StatusValues}

Collections ==
    UNION {{c \in [names -> UNION {RecordsOf(n) : n \in names}] :
                \A n \in names : c[n] \in RecordsOf(n)} : names \in SUBSET PoolNames}

LabelPairs == {<<LabelA, LabelB>>, <<LabelA, LabelA>>}
KeyLists == {PyNone} \cup {PyList(ks) : ks \in SUBSET {K, POOL_STATUS, Z}}
FilterKeys == {PyNone, PyStr(K)}
FilterValues == {PyNone, PyInt(1), PyStr(<<"x">>)}

InitEngine ==
    /\ py3 = TRUE
    /\ data1 \in Collections
    /\ data2 \in Collections
    /\ Cardinality(DOMAIN data1) + Cardinality(DOMAIN data2) <= MaxEntries
    /\ call = [op |-> "none"]
    /\ result = EmptyDict
    /\ IdleParser
    /\ IdleMain

Compare ==
    /\ call.op = "none"
    /\ \E labels \in LabelPairs, keys_to_check \in KeyLists :
          /\ call' = [op |-> "compare", filename1 |-> labels[1], filename2 |-> labels[2],
                      keys_to_check |-> keys_to_check]
          /\ result' = compare_pool_data(data1, data2, labels[1], labels[2], keys_to_check)
    /\ UNCHANGED <<py3, data1, data2, parserVars, mainVars>>

CheckUnchanged ==
    /\ call.op = "none"
    /\ \E filter_key \in FilterKeys, filter_value \in FilterValues, keys_to_check \in KeyLists :
          /\ call' = [op |-> "unchanged", filename1 |-> LabelA, filename2 |-> LabelB,
                      filter_key |-> filter_key, filter_value |-> filter_value,
                      keys_to_check |-> keys_to_check]
          /\ result' = check_unchanged_values(data1, data2, LabelA, LabelB,
                                              filter_key, filter_value, keys_to_check)
    /\ UNCHANGED <<py3, data1, data2, parserVars, mainVars>>

NextEngine == Compare \/ CheckUnchanged

SpecEngine == InitEngine /\ [][NextEngine]_vars

-----------------------------------------------------------------------------
(* main *)

STATUS_KEY == <<"s", "t", "a", "t", "u", "s", ".", "a", "v", "a", "i", "l", "a", "b", "i", "l", "i", "t", "y", "-", "s", "t", "a", "t", "e">>
OFFLINE == <<"o", "f", "f", "l", "i", "n", "e">>
TOT_CONNS == <<"s", "e", "r", "v", "e", "r", "s", "i", "d", "e", ".", "t", "o", "t", "-", "c", "o", "n", "n", "s">>

DIGITS == <<"0", "1", "2", "3", "4", "5", "6", "7", "8", "9">>

\* the i-th path returned by glob.glob('pool_snapshot_*.txt')
Path(i) == <<"s", DIGITS[i + 1]>>

OfflineLine == STATUS_KEY \o <<SP>> \o OFFLINE
ConnsLine == TOT_CONNS \o <<SP, "5">>

\* what a discovered path is: a regular file with a text, a file that cannot
\* be opened, or something that is not a regular file
FileKinds ==
    {[kind |-> "file", text |-> JoinLines(<<HeaderLine, OfflineLine, ConnsLine, CloseLine>>)],
     [kind |-> "file", text |-> JoinLines(<<HeaderLine, OfflineLine, IntLine, CloseLine>>)],
     [kind |-> "file", text |-> JoinLines(<<HeaderLine, SupLine, CloseLine>>)],
     [kind |-> "unreadable", text |-> <<>>],
     [kind |-> "dir", text |-> <<>>]}

\* what a prompt receives: a line of text, end of input, or Ctrl-C
InputTexts == {<<"1">>, <<"2">>, <<"3">>, <<"4">>, <<"0">>, <<"-", "1">>, <<"+", "1">>,
               <<SP, "2">>, <<"x">>, <<>>, <<SUP2>>}
Inputs == {[kind |-> "text", s |-> t] : t \in InputTexts}
             \cup {[kind |-> "eof"], [kind |-> "interrupt"]}

Msg(text) == [msg |-> text]

\* lines 67-72: the loop of parse_all_snapshot_files from entry i on
RECURSIVE ParseAllFrom(_, _, _)
ParseAllFrom(es, i, all_data) ==
    IF i > Len(es) THEN [kind |-> "ok", all_data |-> all_data]
    ELSE CASE es[i].kind = "dir" -> ParseAllFrom(es, i + 1, all_data)
           [] es[i].kind = "unreadable" -> [kind |-> "raise"]
           [] OTHER ->
                LET r == parse_pool_file(es[i].text)
                IN IF r.kind = "raise"
                   THEN [kind |-> "raise"]
                   ELSE ParseAllFrom(es, i + 1, Put(all_data, Path(i), r.pools))

parse_all_snapshot_files(es) == ParseAllFrom(es, 1, EmptyDict)

\* the range test accepts -1, and filenames[-1] is the last file
InRangeNoLowerBound(choice, n) == choice < n

\* line 234: 0 <= choice < len(filenames)
InRange(choice, n) == 0 <= choice /\ choice < n

\* filenames[choice] for a 0-based index
Item(names, choice) == IF choice >= 0 THEN names[choice + 1] ELSE names[Len(names) + 1 + choice]

\* lines 223-242 of select_files_for_comparison on the inputs c1 and c2:
\* the pair returned and the message printed, or the EOFError it lets through
select_files_for_comparison(names, c1, c2) ==
    LET none(text) == [kind |-> "return", files |-> <<>>, printed |-> text] IN
    IF Len(names) < 2
    THEN none("Need at least 2 files to compare")
    ELSE CASE c1.kind = "eof" -> [kind |-> "raise"]
           [] c1.kind = "interrupt" -> none("Invalid input")
           [] c2.kind = "eof" -> [kind |-> "raise"]
           [] c2.kind = "interrupt" -> none("Invalid input")
           [] OTHER ->
                LET n1 == int(c1.s)
                    n2 == int(c2.s)
                IN IF n1 = ValueError \/ n2 = ValueError
                   THEN none("Invalid input")
                   ELSE IF InRange(n1.n - 1, Len(names)) /\ InRange(n2.n - 1, Len(names))
                        THEN [kind |-> "return",
                              files |-> <<Item(names, n1.n - 1), Item(names, n2.n - 1)>>,
                              printed |-> "Available files"]
                        ELSE none("Invalid selection")

\* list(all_pool_data.keys()): in insertion order on a dict that keeps it, in
\* any order otherwise
KeyOrders(d) ==
    {order \in [1..Cardinality(DOMAIN d) -> DOMAIN d] :
        \A i, j \in DOMAIN order : i # j => order[i] # order[j]}

InitMain ==
    /\ py3 \in BOOLEAN
    /\ \E n \in 0..MaxFiles : entries \in [1..n -> FileKinds]
    /\ mpc = "start"
    /\ all_pool_data = EmptyDict
    /\ filenames = <<>>
    /\ choices = <<>>
    /\ selected = <<>>
    /\ invoked = <<>>
    /\ printed = <<>>
    /\ IdleParser
    /\ IdleEngine

\* lines 294-298: every file parsed; main returns when there is none
ParseAll ==
    /\ mpc = "start"
    /\ LET r == parse_all_snapshot_files(entries)
       IN /\ r.kind = "ok"
          /\ all_pool_data' = r.all_data
          /\ IF r.all_data = EmptyDict
             THEN mpc' = "done" /\ printed' = Append(printed, Msg("No snapshot files found"))
             ELSE mpc' = "select" /\ printed' = printed
    /\ UNCHANGED <<py3, entries, filenames, choices, selected, invoked, parserVars, engineVars>>

\* line 294: open() or the parser raises, and main lets the exception through
ParseAllRaises ==
    /\ mpc = "start"
    /\ parse_all_snapshot_files(entries).kind = "raise"
    /\ mpc' = "raised"
    /\ UNCHANGED <<py3, entries, all_pool_data, filenames, choices, selected, invoked,
                   printed, parserVars, engineVars>>

\* lines 301-303: the selection, and main's return when it gave no files
Select ==
    /\ mpc = "select"
    /\ \E order \in KeyOrders(all_pool_data), c1 \in Inputs, c2 \in Inputs :
          LET r == select_files_for_comparison(order, c1, c2)
          IN /\ filenames' = order
             /\ choices' = IF Len(order) < 2 THEN <<>>
                           ELSE IF c1.kind # "text" THEN <<c1>> ELSE <<c1, c2>>
             /\ IF r.kind = "raise"
                THEN mpc' = "raised" /\ selected' = selected /\ printed' = printed
                ELSE /\ selected' = r.files
                     /\ printed' = Append(printed, Msg(r.printed))
                     /\ mpc' = IF r.files = <<>> THEN "done" ELSE "compare"
    /\ UNCHANGED <<py3, entries, all_pool_data, invoked, parserVars, engineVars>>

\* lines 315-324: compare_pool_data and display_differences
CompareStep ==
    /\ mpc = "compare"
    /\ LET file1 == selected[1]
           file2 == selected[2]
           differences == compare_pool_data(all_pool_data[file1], all_pool_data[file2],
                                            file1, file2, PyNone)
       IN /\ invoked' = Append(invoked, [op |-> "compare_pool_data",
                                         filename1 |-> file1, filename2 |-> file2])
          /\ printed' = Append(printed,
                               [msg |-> "differences",
                                body |-> display_differences(differences, file1, file2)])
    /\ mpc' = "unchanged"
    /\ UNCHANGED <<py3, entries, all_pool_data, filenames, choices, selected,
                   parserVars, engineVars>>

\* lines 328-338: check_unchanged_values and display_unchanged_values
UnchangedStep ==
    /\ mpc = "unchanged"
    /\ LET file1 == selected[1]
           file2 == selected[2]
           unchanged == check_unchanged_values(all_pool_data[file1], all_pool_data[file2],
                                               file1, file2, PyStr(STATUS_KEY),
                                               PyStr(OFFLINE), PyList({TOT_CONNS}))
       IN /\ invoked' = Append(invoked, [op |-> "check_unchanged_values",
                                         filename1 |-> file1, filename2 |-> file2])
          /\ printed' = Append(printed, [msg |-> "unchanged", body |-> unchanged])
    /\ mpc' = "done"
    /\ UNCHANGED <<py3, entries, all_pool_data, filenames, choices, selected,
                   parserVars, engineVars>>

NextMain == ParseAll \/ ParseAllRaises \/ Select \/ CompareStep \/ UnchangedStep

SpecMain == InitMain /\ [][NextMain]_vars

-----------------------------------------------------------------------------
(* Claims about the parser, checked under SpecParse *)

Fragments == split(content, RECORD_SEP)

\* the fragment passes the test of line 21 and has a matchable header
HasHeader(frag) == Contains(frag, LTM_POOL_SP) /\ PoolMatch(frag) # <<>>

\* the name in the header of the fragment
HeaderName(frag) == PyStr(PoolMatch(frag))

\* the record parsed from the fragment
RecordOf(frag) == parse_pool_record(frag).d

\* the attribute lines of the fragment, as <<key, value token>>, in file order
AttrLines(frag) ==
    LET lines == split(frag, <<NL>>)
        parts == [j \in 1..Len(lines) |-> split1(strip(lines[j]), <<SP>>)]
        idx == {j \in 1..Len(lines) :
                   IsAttributeLine(strip(lines[j])) /\ Len(parts[j]) = 2}
    IN [j \in idx |-> parts[j]]

\* C6: every record of the returned collection has a non-empty name that is the
\* name in the header of the fragment it was parsed from, and is stored under
\* that header name, whatever attribute lines the fragment has.
C6_NameIsHeaderName ==
    ppc = "done" =>
        LET frags == Fragments
        IN \A n \in DOMAIN pools :
              /\ pools[n][NAME].t = "str"
              /\ pools[n][NAME].s # <<>>
              /\ \E i \in 1..Len(frags) :
                    /\ HasHeader(frags[i])
                    /\ pools[n] = RecordOf(frags[i])
                    /\ pools[n][NAME] = HeaderName(frags[i])
                    /\ n = HeaderName(frags[i])

\* C7: parsing never raises; only fragments with 'ltm pool ' and a matchable
\* header contribute an entry, lines without a space contribute no attribute,
\* and a text without a valid record yields the empty collection.
C7_ParsingNeverRaises ==
    /\ ppc # "raised"
    /\ ppc = "done" =>
          LET frags == Fragments
          IN /\ \A n \in DOMAIN pools :
                   \E i \in 1..Len(frags) :
                       /\ HasHeader(frags[i])
                       /\ pools[n] = RecordOf(frags[i])
                       /\ DOMAIN pools[n] \subseteq
                             {NAME} \cup {a[1] : a \in {AttrLines(frags[i])[j] :
                                                        j \in DOMAIN AttrLines(frags[i])}}
             /\ (\A i \in 1..Len(frags) : ~HasHeader(frags[i])) => pools = EmptyDict

\* C10: last wins.  The collection holds, under each name that a parsed record
\* carries in its name field (line 24), the record of the last fragment with that
\* name and nothing of the earlier ones; and each record holds, for each key, the
\* coerced value of the last attribute line with that key.
C10_LastWins ==
    ppc = "done" =>
        LET frags == Fragments
            recs == {i \in 1..Len(frags) : HasHeader(frags[i])}
            recOf == [i \in recs |-> RecordOf(frags[i])]
            nameOf == [i \in recs |-> recOf[i][NAME]]
        IN /\ DOMAIN pools = {nameOf[i] : i \in recs}
           /\ \A n \in DOMAIN pools :
                 LET named == {i \in recs : nameOf[i] = n}
                     last == CHOOSE j \in named : \A m \in named : m <= j
                     al == AttrLines(frags[last])
                     rec == pools[n]
                 IN /\ rec = recOf[last]
                    /\ DOMAIN rec = {NAME} \cup {al[j][1] : j \in DOMAIN al}
                    /\ \A key \in DOMAIN rec :
                          LET at == {j \in DOMAIN al : al[j][1] = key}
                          IN IF at = {}
                             THEN rec[key] = HeaderName(frags[last])
                             ELSE rec[key] =
                                    Coerce(al[CHOOSE j \in at : \A m \in at : m <= j][2])

\* two records of the text carry the same name and differ, and the collection
\* holds the later one
C10_Witness ==
    /\ ppc = "done"
    /\ LET frags == Fragments
       IN \E i, j \in 1..Len(frags) :
             /\ i < j /\ HasHeader(frags[i]) /\ HasHeader(frags[j])
             /\ RecordOf(frags[i])[NAME] = RecordOf(frags[j])[NAME]
             /\ RecordOf(frags[i]) # RecordOf(frags[j])
             /\ pools[RecordOf(frags[j])[NAME]] = RecordOf(frags[j])

-----------------------------------------------------------------------------
(* Claims about the comparison engine, checked under SpecEngine *)

CommonPools == DOMAIN data1 \cap DOMAIN data2

\* key k is in the per-pool mapping of pool p in the result r
Reports(r, p, k) == p \in DOMAIN r /\ k \in DOMAIN r[p]

\* the per-pool diff of p carries a status marker
HasMarker(r, p) ==
    /\ Reports(r, p, POOL_STATUS)
    /\ r[p][POOL_STATUS].t = "str"

\* C1: for a common pool p and a key k present in p's record on at least one
\* side, k is reported by exactly one of compare_pool_data and
\* check_unchanged_values (no filter), both called with keys_to_check = {k}.
C1_Complementarity ==
    \A k \in {K, POOL_STATUS, NAME} :
        (call.op = "compare" /\ call.keys_to_check = PyList({k})) =>
            \A p \in CommonPools :
                (k \in DOMAIN data1[p] \/ k \in DOMAIN data2[p]) =>
                    LET unchanged == check_unchanged_values(
                                        data1, data2, call.filename1, call.filename2,
                                        PyNone, PyNone, PyList({k}))
                    IN Reports(result, p, k) # Reports(unchanged, p, k)

\* C2: comparing a collection with itself yields the empty DiffResult, for
\* every pair of labels and every keys_to_check.
C2_DiffEmptiness ==
    (call.op = "compare" /\ data1 = data2) => result = EmptyDict

\* a non-empty collection was compared with itself on keys that include one no
\* record has
C2_Witness ==
    /\ call.op = "compare"
    /\ data1 = data2
    /\ data1 # EmptyDict
    /\ call.keys_to_check = PyList({K, POOL_STATUS, Z})
    /\ \E p \in DOMAIN data1 : K \in DOMAIN data1[p]
    /\ result = EmptyDict

\* C3: a pool present in the first collection only is mapped to the single
\* marker "missing in the second label"; with the arguments swapped the same
\* pool is mapped to the single marker naming the same label, now the first;
\* and the pools carrying a marker are the same in both call orders.
C3_AbsenceSymmetry ==
    call.op = "compare" =>
        LET swapped == compare_pool_data(data2, data1, call.filename2, call.filename1,
                                         call.keys_to_check)
            marker == Put(EmptyDict, POOL_STATUS, MissingIn(call.filename2))
        IN /\ \A p \in DOMAIN data1 \ DOMAIN data2 :
                 /\ p \in DOMAIN result /\ result[p] = marker
                 /\ p \in DOMAIN swapped /\ swapped[p] = marker
           /\ {p \in PoolNames : HasMarker(result, p)}
                 = {p \in PoolNames : HasMarker(swapped, p)}
           /\ {p \in PoolNames : HasMarker(result, p)}
                 = (DOMAIN data1 \cup DOMAIN data2) \ CommonPools

\* a pool of the first collection only was compared under two different labels
C3_Witness ==
    /\ call.op = "compare"
    /\ call.filename1 # call.filename2
    /\ \E p \in DOMAIN data1 \ DOMAIN data2 : HasMarker(result, p)

\* equality that compares the tags too
TaggedEq(a, b) == a = b

\* C4 as stated: with both filter arguments, every pool of the result has
\* record[filter_key] equal to filter_value, tags included, in both collections;
\* with one of them omitted no pool is excluded by filtering.
C4_FilterTagged ==
    (call.op = "unchanged" /\ call.filter_key # PyNone /\ call.filter_value # PyNone) =>
        \A p \in DOMAIN result :
            /\ call.filter_key.s \in DOMAIN data1[p]
            /\ call.filter_key.s \in DOMAIN data2[p]
            /\ TaggedEq(data1[p][call.filter_key.s], call.filter_value)
            /\ TaggedEq(data2[p][call.filter_key.s], call.filter_value)

\* C4 as amended: with both filter arguments, every pool of the result is in
\* both collections and has record[filter_key] == filter_value there under
\* Python's ==, for which a number never equals a string while an int and a
\* float of the same numeric value are equal; with a filter argument omitted,
\* every common pool that has an agreeing checked key is in the result.
C4_FilterNarrowing ==
    call.op = "unchanged" =>
        IF call.filter_key # PyNone /\ call.filter_value # PyNone
        THEN \A p \in DOMAIN result :
                /\ p \in CommonPools
                /\ \A d \in {data1, data2} :
                      /\ call.filter_key.s \in DOMAIN d[p]
                      /\ PyEq(d[p][call.filter_key.s], call.filter_value)
                      /\ (d[p][call.filter_key.s].t = "str") = (call.filter_value.t = "str")
        ELSE \A p \in CommonPools :
                (\E k \in KeysToCompare(data1[p], data2[p], call.keys_to_check) :
                    /\ k \in DOMAIN data1[p] /\ k \in DOMAIN data2[p]
                    /\ PyEq(data1[p][k], data2[p][k])
                    /\ ~PyEq(data1[p][k], MISSING))
                => p \in DOMAIN result

\* a pool common to both collections, whose record passes the filter in the
\* first collection, was excluded because its record fails it in the second
C4_Witness ==
    /\ call.op = "unchanged"
    /\ call.filter_key = PyStr(K)
    /\ call.filter_value = PyInt(1)
    /\ call.keys_to_check = PyNone
    /\ \E p \in CommonPools :
          /\ p \notin DOMAIN result
          /\ K \in DOMAIN data1[p] /\ data1[p][K] = PyInt(1)
          /\ K \in DOMAIN data2[p] /\ data2[p][K] = PyStr(<<"x">>)

\* C5: every per-pool diff is non-empty and is either the single status marker
\* under 'pool_status', exactly when the pool is absent from one side, or a
\* mapping from compared keys whose fetched values differ to a pair from which
\* the first value is retrievable under the first label and the second value
\* under the second label.
C5_DiffShape ==
    call.op = "compare" =>
        \A p \in DOMAIN result :
            /\ DOMAIN result[p] # {}
            /\ IF p \notin CommonPools
               THEN /\ DOMAIN result[p] = {POOL_STATUS}
                    /\ result[p][POOL_STATUS].t = "str"
               ELSE \A k \in DOMAIN result[p] :
                       LET v1 == Get(data1[p], k, MISSING)
                           v2 == Get(data2[p], k, MISSING)
                       IN /\ k \in KeysToCompare(data1[p], data2[p], call.keys_to_check)
                          /\ v1 # v2
                          /\ result[p][k].t = "dict"
                          /\ Get(result[p][k].d, call.filename1, MISSING) = v1
                          /\ Get(result[p][k].d, call.filename2, MISSING) = v2

\* C8: the result has key k with value v for pool p exactly when p is in both
\* post-filter collections, k is a checked key, and k is present on both sides
\* with the same value v; and no pool has an empty mapping.
C8_UnchangedExact ==
    call.op = "unchanged" =>
        LET f1 == Filtered(data1, call.filter_key, call.filter_value)
            f2 == Filtered(data2, call.filter_key, call.filter_value)
        IN /\ \A p \in DOMAIN result : DOMAIN result[p] # {}
           /\ \A p \in PoolNames, k \in {K, POOL_STATUS, NAME, Z} :
                 LET agree == /\ p \in DOMAIN f1 \cap DOMAIN f2
                              /\ k \in KeysToCompare(f1[p], f2[p], call.keys_to_check)
                              /\ k \in DOMAIN f1[p] /\ k \in DOMAIN f2[p]
                              /\ PyEq(f1[p][k], f2[p][k])
                 IN /\ Reports(result, p, k) = agree
                    /\ Reports(result, p, k) => result[p][k] = f1[p][k]

-----------------------------------------------------------------------------
(* Claims about main, checked under SpecMain *)

\* the paths that were discovered as regular files
DiscoveredFiles == {Path(i) : i \in {j \in 1..Len(entries) : entries[j].kind = "file"}}

\* the prompt received text that is a number of 1..n
ValidChoice(c, n) ==
    /\ c.kind = "text"
    /\ int(c.s) # ValueError
    /\ int(c.s).n \in 1..n

Reported(text) == printed # <<>> /\ printed[Len(printed)] = Msg(text)

====
